---- MODULE Spec2Model ----
(***************************************************************************)
(* A model of the two example notebooks of the repository, executed by    *)
(* "run all":                                                              *)
(*   src/examples/frameworks/huggingface/transformers.ipynb                *)
(*   src/unnamed/part_000  (the matplotlib / seaborn example notebook)     *)
(* A notebook is a sequence of cells, a code cell a sequence of            *)
(* statements.  Every statement carries the line of the source file it     *)
(* stands on; that line number is its identity in the model.               *)
(***************************************************************************)
EXTENDS Naturals, Sequences, FiniteSets, TLC

VARIABLES nb, inherited, status, cell, stmt, bound, osenv, installed, trace, started,
          tasks, figure, plots, files, error, executing, actors

vars == <<nb, inherited, status, cell, stmt, bound, osenv, installed, trace, started,
          tasks, figure, plots, files, error, executing, actors>>

----------------------------------------------------------------------------
(* Expressions that appear as call arguments. *)

Name(id) == [e |-> "name", id |-> id, key |-> "", v |-> ""]

Item(id, key) == [e |-> "item", id |-> id, key |-> key, v |-> ""]

Lit(v) == [e |-> "lit", id |-> "", key |-> "", v |-> v]

NoArgs == << >>

(* Statements.  callee is the first name of the called expression          *)
(* (trainer in trainer.train(), np in np.random.rand(N)), "" when the      *)
(* statement calls nothing.                                                *)

Stmt(line, kind, op, callee, args, binds) ==
    [line |-> line, kind |-> kind, op |-> op, callee |-> callee, args |-> args,
     binds |-> binds, params |-> {}, pkgs |-> {}, var |-> "", val |-> ""]

EnvMagic(line, var, val) ==
    [line |-> line, kind |-> "env", op |-> "%env", callee |-> "", args |-> NoArgs,
     binds |-> {}, params |-> {}, pkgs |-> {}, var |-> var, val |-> val]

Pip(line, pkgs) ==
    [line |-> line, kind |-> "install", op |-> "!pip install", callee |-> "",
     args |-> NoArgs, binds |-> {}, params |-> {}, pkgs |-> pkgs, var |-> "", val |-> ""]

Import(line, pkg, name) ==
    [line |-> line, kind |-> "import", op |-> "import", callee |-> "", args |-> NoArgs,
     binds |-> {name}, params |-> {}, pkgs |-> {pkg}, var |-> "", val |-> ""]

(* def name(params): return callee(args) *)
Def(line, name, params, callee, args) ==
    [line |-> line, kind |-> "def", op |-> "def", callee |-> callee, args |-> args,
     binds |-> {name}, params |-> params, pkgs |-> {}, var |-> "", val |-> ""]

(* A cell; first is the line its JSON object opens on. *)
Code(first, source) == [cell_type |-> "code", first |-> first, source |-> source]

Markdown(first) == [cell_type |-> "markdown", first |-> first, source |-> << >>]

----------------------------------------------------------------------------
(* src/examples/frameworks/huggingface/transformers.ipynb *)

T_Credentials ==
    Code(29, << EnvMagic(38, "CLEARML_WEB_HOST", ""),
                EnvMagic(39, "CLEARML_API_HOST", ""),
                EnvMagic(40, "CLEARML_FILES_HOST", ""),
                EnvMagic(41, "CLEARML_API_ACCESS_KEY", ""),
                EnvMagic(42, "CLEARML_API_SECRET_KEY", "") >>)

(* Lines 52 and 55 (%env CLEARML_TASK=, %env CLEARML_PROJECT=) are comments. *)
T_LogModel ==
    Code(45, << EnvMagic(49, "CLEARML_LOG_MODEL", "True") >>)

T_Install ==
    Code(72, << Pip(81, {"clearml"}),
                Pip(83, {"transformers", "torch", "datasets"}),
                Pip(85, {"accelerate"}) >>)

T_Model ==
    Code(109, << Import(112, "transformers", "AutoModelForSequenceClassification"),
                 Stmt(114, "construct", "from_pretrained",
                      "AutoModelForSequenceClassification",
                      [a0 |-> Lit("distilbert-base-uncased")], {"model"}) >>)

T_TrainingArgs ==
    Code(133, << Import(136, "transformers", "TrainingArguments"),
                 Stmt(138, "construct", "TrainingArguments", "TrainingArguments",
                      [output_dir |-> Lit("path/to/save/folder/"),
                       learning_rate |-> Lit("2e-5"),
                       per_device_train_batch_size |-> Lit("8"),
                       per_device_eval_batch_size |-> Lit("8"),
                       num_train_epochs |-> Lit("2"),
                       report_to |-> Lit({"clearml"})],
                      {"training_args"}) >>)

T_Tokenizer ==
    Code(163, << Import(166, "transformers", "AutoTokenizer"),
                 Stmt(168, "construct", "from_pretrained", "AutoTokenizer",
                      [a0 |-> Lit("distilbert-base-uncased")], {"tokenizer"}) >>)

T_Dataset ==
    Code(186, << Import(189, "datasets", "load_dataset"),
                 Stmt(191, "construct", "load_dataset", "load_dataset",
                      [a0 |-> Lit("rotten_tomatoes")], {"dataset"}) >>)

T_Tokenize ==
    Code(211, << Def(215, "tokenize_dataset", {"dataset"}, "tokenizer",
                     [a0 |-> Item("dataset", "text")]),
                 Stmt(218, "call", "map", "dataset",
                      [a0 |-> Name("tokenize_dataset"), batched |-> Lit("True")],
                      {"dataset"}) >>)

T_Collator ==
    Code(235, << Import(238, "transformers", "DataCollatorWithPadding"),
                 Stmt(240, "construct", "DataCollatorWithPadding",
                      "DataCollatorWithPadding",
                      [tokenizer |-> Name("tokenizer")], {"data_collator"}) >>)

T_Trainer ==
    Code(257, << Import(265, "transformers", "Trainer"),
                 Stmt(267, "construct", "Trainer", "Trainer",
                      [model |-> Name("model"),
                       args |-> Name("training_args"),
                       train_dataset |-> Item("dataset", "train"),
                       eval_dataset |-> Item("dataset", "test"),
                       tokenizer |-> Name("tokenizer"),
                       data_collator |-> Name("data_collator")],
                      {"trainer"}) >>)

T_Train ==
    Code(287, << Stmt(295, "run", "train", "trainer", NoArgs, {}) >>)

(* Variants of the notebook, each one edit away from it. *)

(* The install cell moved below the model cell. *)
TransformersCells_InstallLate ==
    << Markdown(3), Markdown(16), T_Credentials, T_LogModel, Markdown(63),
       Markdown(88), Markdown(97), T_Model, T_Install, Markdown(122),
       T_TrainingArgs, Markdown(153), T_Tokenizer, Markdown(176), T_Dataset,
       Markdown(199), T_Tokenize, Markdown(226), T_Collator, Markdown(248),
       T_Trainer, Markdown(277), T_Train, Markdown(298) >>

(* Line 49 (%env CLEARML_LOG_MODEL=True) left out. *)
TransformersCells_NoLogModel ==
    << Markdown(3), Markdown(16), T_Credentials, Code(45, << >>), Markdown(63),
       T_Install, Markdown(88), Markdown(97), T_Model, Markdown(122),
       T_TrainingArgs, Markdown(153), T_Tokenizer, Markdown(176), T_Dataset,
       Markdown(199), T_Tokenize, Markdown(226), T_Collator, Markdown(248),
       T_Trainer, Markdown(277), T_Train, Markdown(298) >>

(* Line 52 (%env CLEARML_TASK=) uncommented and left empty. *)
TransformersCells_TaskAssigned ==
    << Markdown(3), Markdown(16), T_Credentials,
       Code(45, << EnvMagic(49, "CLEARML_LOG_MODEL", "True"),
                   EnvMagic(52, "CLEARML_TASK", "") >>),
       Markdown(63),
       T_Install, Markdown(88), Markdown(97), T_Model, Markdown(122),
       T_TrainingArgs, Markdown(153), T_Tokenizer, Markdown(176), T_Dataset,
       Markdown(199), T_Tokenize, Markdown(226), T_Collator, Markdown(248),
       T_Trainer, Markdown(277), T_Train, Markdown(298) >>

(* dataset.map(tokenize_dataset, batched=True, num_proc=2) *)
TransformersCells_NumProc ==
    << Markdown(3), Markdown(16), T_Credentials, T_LogModel, Markdown(63),
       T_Install, Markdown(88), Markdown(97), T_Model, Markdown(122),
       T_TrainingArgs, Markdown(153), T_Tokenizer, Markdown(176), T_Dataset,
       Markdown(199),
       Code(211, << T_Tokenize.source[1],
                    Stmt(218, "call", "map", "dataset",
                         [a0 |-> Name("tokenize_dataset"), batched |-> Lit("True"),
                          num_proc |-> Lit("2")], {"dataset"}) >>),
       Markdown(226), T_Collator, Markdown(248),
       T_Trainer, Markdown(277), T_Train, Markdown(298) >>

(* The tokenizer cell moved below the cell that maps tokenize_dataset. *)
TransformersCells_TokenizerLate ==
    << Markdown(3), Markdown(16), T_Credentials, T_LogModel, Markdown(63),
       T_Install, Markdown(88), Markdown(97), T_Model, Markdown(122),
       T_TrainingArgs, Markdown(153), Markdown(176), T_Dataset,
       Markdown(199), T_Tokenize, T_Tokenizer, Markdown(226), T_Collator,
       Markdown(248), T_Trainer, Markdown(277), T_Train, Markdown(298) >>

(* The trainer constructed before the dataset is tokenized. *)
TransformersCells_TrainerOnRaw ==
    << Markdown(3), Markdown(16), T_Credentials, T_LogModel, Markdown(63),
       T_Install, Markdown(88), Markdown(97), T_Model, Markdown(122),
       T_TrainingArgs, Markdown(153), T_Tokenizer, Markdown(176), T_Dataset,
       Markdown(226), T_Collator, Markdown(248), T_Trainer,
       Markdown(199), T_Tokenize, Markdown(277), T_Train, Markdown(298) >>

(* The CLEARML_LOG_MODEL cell moved to the end of the notebook. *)
TransformersCells_EnvLast ==
    << Markdown(3), Markdown(16), T_Credentials, Markdown(63),
       T_Install, Markdown(88), Markdown(97), T_Model, Markdown(122),
       T_TrainingArgs, Markdown(153), T_Tokenizer, Markdown(176), T_Dataset,
       Markdown(199), T_Tokenize, Markdown(226), T_Collator, Markdown(248),
       T_Trainer, Markdown(277), T_Train, Markdown(298), T_LogModel >>

(* The notebook as it stands in the file. *)
TransformersCells ==
    << Markdown(3), Markdown(16), T_Credentials, T_LogModel, Markdown(63),
       T_Install, Markdown(88), Markdown(97), T_Model, Markdown(122),
       T_TrainingArgs, Markdown(153), T_Tokenizer, Markdown(176), T_Dataset,
       Markdown(199), T_Tokenize, Markdown(226), T_Collator, Markdown(248),
       T_Trainer, Markdown(277), T_Train, Markdown(298) >>

----------------------------------------------------------------------------
(* src/unnamed/part_000 : the matplotlib example notebook *)

(* Line 30 (!pip install clearml) is a comment: the cell has no statement. *)
M_InstallClearml == Code(19, << >>)

M_InstallSeaborn == Code(33, << Pip(39, {"seaborn"}) >>)

M_Init ==
    Code(56, << Import(66, "matplotlib", "plt"),
                Import(67, "numpy", "np"),
                Import(68, "seaborn", "sns"),
                Import(70, "clearml", "Task"),
                Stmt(73, "construct", "Task.init", "Task",
                     [project_name |-> Lit("Colab notebooks"),
                      task_name |-> Lit("Matplotlib example")], {"task"}) >>)

M_Scatter ==
    Code(88, << Stmt(99, "assign", "int", "", [a0 |-> Lit("50")], {"N"}),
                Stmt(100, "call", "np.random.rand", "np", [a0 |-> Name("N")], {"x"}),
                Stmt(101, "call", "np.random.rand", "np", [a0 |-> Name("N")], {"y"}),
                Stmt(102, "call", "np.random.rand", "np", [a0 |-> Name("N")], {"colors"}),
                Stmt(103, "call", "np.random.rand", "np", [a0 |-> Name("N")], {"area"}),
                Stmt(104, "plot", "plt.scatter", "plt",
                     [a0 |-> Name("x"), a1 |-> Name("y"), s |-> Name("area"),
                      c |-> Name("colors"), alpha |-> Lit("0.5")], {}),
                Stmt(105, "show", "plt.show", "plt", NoArgs, {}) >>)

M_Line ==
    Code(108, << Stmt(119, "call", "np.linspace", "np",
                      [a0 |-> Lit("0"), a1 |-> Lit("10"), a2 |-> Lit("30")], {"x"}),
                 Stmt(120, "call", "np.sin", "np", [a0 |-> Name("x")], {"y"}),
                 Stmt(121, "plot", "plt.plot", "plt",
                      [a0 |-> Name("x"), a1 |-> Name("y"), a2 |-> Lit("o"),
                       color |-> Lit("pink")], {}),
                 Stmt(122, "show", "plt.show", "plt", NoArgs, {}) >>)

M_Image ==
    Code(135, << Stmt(146, "call", "np.eye", "np",
                      [a0 |-> Lit("256"), a1 |-> Lit("256"), dtype |-> Name("np")], {"m"}),
                 Stmt(147, "plot", "plt.imshow", "plt", [a0 |-> Name("m")], {}),
                 Stmt(148, "show", "plt.show", "plt", NoArgs, {}) >>)

M_TitledImage ==
    Code(151, << Stmt(162, "call", "np.eye", "np",
                      [a0 |-> Lit("256"), a1 |-> Lit("256"), dtype |-> Name("np")], {"m"}),
                 Stmt(163, "plot", "plt.imshow", "plt", [a0 |-> Name("m")], {}),
                 Stmt(164, "plot", "plt.title", "plt", [a0 |-> Lit("Image Title")], {}),
                 Stmt(165, "show", "plt.show", "plt", NoArgs, {}) >>)

M_Savefig ==
    Code(168, << Stmt(179, "assign", "int", "", [a0 |-> Lit("10")], {"N"}),
                 Stmt(180, "call", "np.random.rand", "np", [a0 |-> Name("N")], {"x"}),
                 Stmt(181, "call", "np.random.rand", "np", [a0 |-> Name("N")], {"y"}),
                 Stmt(182, "call", "np.random.rand", "np", [a0 |-> Name("N")], {"colors"}),
                 Stmt(183, "call", "np.random.rand", "np", [a0 |-> Name("N")], {"area"}),
                 Stmt(184, "plot", "plt.title", "plt", [a0 |-> Lit("savefig Image")], {}),
                 Stmt(185, "plot", "plt.scatter", "plt",
                      [a0 |-> Name("x"), a1 |-> Name("y"), s |-> Name("area"),
                       c |-> Name("colors"), alpha |-> Lit("0.5")], {}),
                 Stmt(186, "savefig", "plt.savefig", "plt", [a0 |-> Lit("plot.png")], {}) >>)

M_Seaborn ==
    Code(199, << Stmt(209, "call", "sns.set", "sns", [style |-> Lit("darkgrid")], {}),
                 Stmt(211, "construct", "sns.load_dataset", "sns",
                      [a0 |-> Lit("fmri")], {"fmri"}),
                 Stmt(213, "plot", "sns.lineplot", "sns",
                      [x |-> Lit("timepoint"), y |-> Lit("signal"),
                       hue |-> Lit("region"), style |-> Lit("event"),
                       data |-> Name("fmri")], {}),
                 Stmt(216, "show", "plt.show", "plt", NoArgs, {}) >>)

(* A variant of the notebook: Task.init moved below the first plot. *)
MatplotlibCells_LateInit ==
    << Markdown(3), M_InstallClearml, M_InstallSeaborn, Markdown(42),
       Code(56, SubSeq(M_Init.source, 1, 4)),
       Markdown(76), M_Scatter, Code(108, << M_Init.source[5] >> \o M_Line.source),
       Markdown(125), M_Image, M_TitledImage,
       M_Savefig, Markdown(189), M_Seaborn >>

(* The notebook as it stands in the file. *)
MatplotlibCells ==
    << Markdown(3), M_InstallClearml, M_InstallSeaborn, Markdown(42), M_Init,
       Markdown(76), M_Scatter, M_Line, Markdown(125), M_Image, M_TitledImage,
       M_Savefig, Markdown(189), M_Seaborn >>

----------------------------------------------------------------------------
(* The notebooks by name. *)

Notebooks == {"transformers", "matplotlib"}

Notebook(n) == IF n = "transformers" THEN TransformersCells ELSE MatplotlibCells

TransformersCodeCells ==
    {i \in 1..Len(TransformersCells) : TransformersCells[i].cell_type = "code"}

MatplotlibCodeCells ==
    {i \in 1..Len(MatplotlibCells) : MatplotlibCells[i].cell_type = "code"}

CodeCells(n) == IF n = "transformers" THEN TransformersCodeCells ELSE MatplotlibCodeCells

(* Every statement of a sequence of cells, in document order. *)
RECURSIVE StmtsFrom(_, _)
StmtsFrom(cells, i) ==
    IF i > Len(cells) THEN << >>
    ELSE cells[i].source \o StmtsFrom(cells, i + 1)

TransformersStmts == StmtsFrom(TransformersCells, 1)

MatplotlibStmts == StmtsFrom(MatplotlibCells, 1)

Stmts(n) == IF n = "transformers" THEN TransformersStmts ELSE MatplotlibStmts

TransformersLines == [i \in 1..Len(TransformersStmts) |-> TransformersStmts[i].line]

MatplotlibLines == [i \in 1..Len(MatplotlibStmts) |-> MatplotlibStmts[i].line]

Lines(n) == IF n = "transformers" THEN TransformersLines ELSE MatplotlibLines

(* The statement that stands on a line. *)
ByLine(stmts) ==
    [l \in {stmts[i].line : i \in 1..Len(stmts)} |->
        stmts[CHOOSE i \in 1..Len(stmts) : stmts[i].line = l]]

TransformersByLine == ByLine(TransformersStmts)

MatplotlibByLine == ByLine(MatplotlibStmts)

StmtAt(n, line) ==
    IF n = "transformers" THEN TransformersByLine[line] ELSE MatplotlibByLine[line]

(* Run-all takes the code cells in document order; markdown cells are not  *)
(* executed.  0 when no code cell follows cell c.                          *)
NextCodeCell(n, c) ==
    IF \E i \in CodeCells(n) : i > c
    THEN CHOOSE i \in CodeCells(n) : i > c /\ \A j \in CodeCells(n) : j > c => i <= j
    ELSE 0

----------------------------------------------------------------------------
(* Python name resolution. *)

ArgNames(s) == {s.args[k].id : k \in {k \in DOMAIN s.args : s.args[k].e # "lit"}}

(* The names a function body reads that are not its parameters: they are   *)
(* looked up in the notebook's globals when the function is called.        *)
FreeNames(s) == (({s.callee} \ {""}) \cup ArgNames(s)) \ s.params

(* The names a statement reads when it executes.  A def reads nothing; a    *)
(* call that is handed a notebook function (dataset.map(tokenize_dataset))  *)
(* invokes it, which reads that function's free names.                      *)
Reads(s, env) ==
    IF s.kind = "def" THEN {}
    ELSE ({s.callee} \ {""}) \cup ArgNames(s)
         \cup UNION {env[m].free :
                      m \in {k \in ArgNames(s) \cap DOMAIN env : env[k].type = "function"}}

EvalExpr(x, env) ==
    CASE x.e = "name" -> env[x.id]
      [] x.e = "item" -> [type |-> "item", key |-> x.key, of |-> env[x.id]]
      [] OTHER -> x.v

(* The value a statement binds to its target. *)
Eval(s, env) ==
    CASE s.kind = "def" ->
            [type |-> "function", line |-> s.line, free |-> FreeNames(s),
             calls |-> s.callee]
      [] s.kind = "import" ->
            [type |-> "import", line |-> s.line, pkg |-> s.pkgs]
      [] s.op = "map" ->
            [type |-> "map", line |-> s.line, of |-> env[s.callee],
             mapped_with |-> env[env[s.args.a0.id].calls]]
      [] OTHER ->
            [type |-> s.op, line |-> s.line,
             kw |-> [k \in DOMAIN s.args |-> EvalExpr(s.args[k], env)]]

----------------------------------------------------------------------------
(* The process environment and the installed packages. *)

Getenv(env, var, default) == IF var \in DOMAIN env THEN env[var] ELSE default

(* The packages a package cannot do without: pip installs them with it,    *)
(* and importing it imports them.  seaborn needs numpy, pandas and         *)
(* matplotlib.                                                             *)
Requires(pkg) == IF pkg = "seaborn" THEN {"numpy", "pandas", "matplotlib"} ELSE {}

PipInstall(pkgs) == pkgs \cup UNION {Requires(p) : p \in pkgs}

(* The packages an import statement loads. *)
Needs(s) == s.pkgs \cup UNION {Requires(p) : p \in s.pkgs}

(* Packages the kernel's environment may hold before the notebook runs:    *)
(* any of those the notebooks install or import.                           *)
Preinstallable ==
    {"clearml", "transformers", "torch", "datasets", "accelerate", "seaborn",
     "matplotlib", "numpy", "pandas"}

(* The environment variables the transformers notebook sets or names       *)
(* (lines 38-42, 49, 52, 55).                                              *)
Credentials ==
    {"CLEARML_WEB_HOST", "CLEARML_API_HOST", "CLEARML_FILES_HOST",
     "CLEARML_API_ACCESS_KEY", "CLEARML_API_SECRET_KEY"}

EnvVars == Credentials \cup {"CLEARML_LOG_MODEL", "CLEARML_TASK", "CLEARML_PROJECT"}

(* The values a variable may have when the kernel starts. *)
InheritedValues(var) ==
    CASE var = "CLEARML_LOG_MODEL" -> {"True", "False"}
      [] var = "CLEARML_TASK" -> {"my task"}
      [] var = "CLEARML_PROJECT" -> {"my project"}
      [] OTHER -> {"abc"}

(* How many of these variables the kernel inherits at most. *)
MaxInherited == 2

(* The kernel inherits the environment of the process that started it: any *)
(* of the variables may be set there already.                              *)
InheritedEnvs ==
    UNION {{e \in [vs -> UNION {InheritedValues(v) : v \in vs}] :
                \A v \in vs : e[v] \in InheritedValues(v)} :
           vs \in {x \in SUBSET EnvVars : Cardinality(x) <= MaxInherited}}

----------------------------------------------------------------------------
(* What the transformers library does with the notebook's calls.  Its code  *)
(* is not part of the notebooks; the rules below follow the notebook's      *)
(* text and the library's documented behaviour.                             *)

(* The integrations a TrainingArguments value reports to (line 144:         *)
(* report_to=['clearml']).                                                  *)
ReportTo(args) == IF "report_to" \in DOMAIN args.kw THEN args.kw.report_to ELSE {}

(* Trainer(...) builds the callbacks its arguments report to; the           *)
(* ClearMLCallback cannot be built without the clearml package, and         *)
(* Trainer(...) then raises.                                                *)
TrainerAccepts(s, env, pkgs) ==
    s.op = "Trainer" =>
        ("clearml" \in ReportTo(env[s.args.args.id]) => "clearml" \in pkgs)

(* transformers.ipynb line 304: "Since clearml is installed, the trainer    *)
(* will use the ClearMLCallback so a ClearML task is created".              *)
ClearMLCallbackUsed(trainer) == "clearml" \in ReportTo(trainer.kw.args)

(* transformers.ipynb lines 48-55 and 306: the task is called "Trainer" in  *)
(* project "HuggingFace Transformers" unless CLEARML_TASK / CLEARML_PROJECT *)
(* say otherwise; CLEARML_LOG_MODEL=True makes it log the models.           *)
TrainerTask(env, line) ==
    [line |-> line,
     project |-> Getenv(env, "CLEARML_PROJECT", "HuggingFace Transformers"),
     name |-> Getenv(env, "CLEARML_TASK", "Trainer"),
     log_model |-> (Getenv(env, "CLEARML_LOG_MODEL", "False") = "True")]

(* part_000 line 73: Task.init(project_name=..., task_name=...). *)
InitTask(s) ==
    [line |-> s.line, project |-> s.args.project_name.v, name |-> s.args.task_name.v]

(* The actors that run the notebook's own code in statement s: the kernel's *)
(* thread, unless the call asks the library for worker processes.  Neither  *)
(* notebook passes num_proc (transformers.ipynb line 218 passes only        *)
(* batched=True), starts a thread or awaits.                                *)
Workers(s) == IF "num_proc" \in DOMAIN s.args THEN {"pool-worker"} ELSE {"kernel"}

(* A variant: every statement wrapped in try: ... except: pass. *)
TryLines_All(n) == {Lines(n)[i] : i \in 1..Len(Lines(n))}

(* The lines that stand inside a try statement: there is none in either     *)
(* notebook.                                                                *)
TryLines(n) == {}

(* The kernel draws with the inline backend: once a cell's execution is     *)
(* over, with or without an exception, the backend shows the figure that    *)
(* is still open, under the session that is active, and closes it.  ended   *)
(* is the line at which the cell's execution ended.  After plt.show() no    *)
(* figure is open; the savefig cell (lines 179-186) ends with one.          *)
FlushFigures(ended) ==
    /\ plots' = IF figure = << >> THEN plots
                ELSE Append(plots, [line |-> ended, artists |-> figure,
                                    session |-> Len(tasks)])
    /\ figure' = << >>

(* The kinds of statement that run library code and may raise whatever the  *)
(* library raises (credentials, network, arguments, a failing import).      *)
LibraryCalls == {"import", "construct", "call", "plot", "show", "savefig", "run"}

----------------------------------------------------------------------------
(* The run-all execution of one notebook. *)

NoError == [line |-> 0, type |-> "none"]

Init ==
    /\ nb \in Notebooks
    /\ status = "idle"
    /\ cell = 0
    /\ stmt = 0
    /\ bound = << >>
    /\ inherited \in InheritedEnvs
    /\ osenv = inherited
    /\ installed \in SUBSET Preinstallable
    /\ trace = << >>
    /\ started = << >>
    /\ tasks = << >>
    /\ figure = << >>
    /\ plots = << >>
    /\ files = {}
    /\ error = NoError
    /\ executing = {}
    /\ actors = {}

AtStmt == status = "busy" /\ stmt <= Len(Notebook(nb)[cell].source)

Current == Notebook(nb)[cell].source[stmt]

(* The current statement is of one of the kinds ks and every name it reads  *)
(* is bound.                                                                *)
Runs(ks) ==
    /\ AtStmt
    /\ Current.kind \in ks
    /\ Reads(Current, bound) \subseteq DOMAIN bound

(* What every successfully executed statement does: bind its targets and    *)
(* pass control to the next statement of the cell.                          *)
Done(s) ==
    /\ bound' = [n \in s.binds |-> Eval(s, bound)] @@ bound
    /\ trace' = Append(trace, s.line)
    /\ actors' = actors \cup Workers(s)
    /\ stmt' = stmt + 1
    /\ UNCHANGED <<nb, inherited, status, cell, started, error, executing>>

(* The kernel takes the next code cell once the previous one has completed. *)
StartCell ==
    /\ status = "idle"
    /\ NextCodeCell(nb, cell) # 0
    /\ cell' = NextCodeCell(nb, cell)
    /\ stmt' = 1
    /\ status' = "busy"
    /\ started' = Append(started, cell')
    /\ executing' = executing \cup {cell'}
    /\ UNCHANGED <<nb, inherited, bound, osenv, installed, trace, tasks, figure, plots,
                   files, error, actors>>

(* %env VAR=value *)
SetEnv ==
    /\ Runs({"env"})
    /\ osenv' = (Current.var :> Current.val) @@ osenv
    /\ Done(Current)
    /\ UNCHANGED <<installed, tasks, figure, plots, files>>

(* !pip install ...: pip installs what the line names.  The line is a      *)
(* shell command, not a Python call.                                        *)
Install ==
    /\ Runs({"install"})
    /\ installed' = installed \cup PipInstall(Current.pkgs)
    /\ Done(Current)
    /\ UNCHANGED <<osenv, tasks, figure, plots, files>>

(* !pip install ... fails: pip exits non-zero, the shell escape raises      *)
(* nothing, and the next line of the cell runs.  pip may fail before it     *)
(* installs anything (no index reachable, no matching distribution) or      *)
(* while it installs the collected packages one after the other, in an      *)
(* order of its own: some of them, but not all, are then in place.          *)
InstallFails ==
    /\ Runs({"install"})
    /\ \E some \in SUBSET PipInstall(Current.pkgs) :
          /\ some # PipInstall(Current.pkgs)
          /\ installed' = installed \cup some
    /\ Done(Current)
    /\ UNCHANGED <<osenv, tasks, figure, plots, files>>

(* import / from ... import: the package and what it imports have to be     *)
(* there.                                                                   *)
ImportModule ==
    /\ Runs({"import"})
    /\ Needs(Current) \subseteq installed
    /\ Done(Current)
    /\ UNCHANGED <<osenv, installed, tasks, figure, plots, files>>

(* def and the assignment of a literal: no library is called. *)
Define ==
    /\ Runs({"def", "assign"})
    /\ Done(Current)
    /\ UNCHANGED <<osenv, installed, tasks, figure, plots, files>>

(* A library call that returns an object. *)
Call ==
    /\ Runs({"construct", "call"})
    /\ Current.op # "Task.init"
    /\ TrainerAccepts(Current, bound, installed)
    /\ Done(Current)
    /\ UNCHANGED <<osenv, installed, tasks, figure, plots, files>>

(* task = Task.init(...): a tracking session starts. *)
TaskInit ==
    /\ Runs({"construct"})
    /\ Current.op = "Task.init"
    /\ tasks' = Append(tasks, InitTask(Current))
    /\ Done(Current)
    /\ UNCHANGED <<osenv, installed, figure, plots, files>>

(* plt.scatter, plt.plot, plt.imshow, plt.title, sns.lineplot draw on the   *)
(* current figure.                                                          *)
Plot ==
    /\ Runs({"plot"})
    /\ figure' = Append(figure, Current.line)
    /\ Done(Current)
    /\ UNCHANGED <<osenv, installed, tasks, plots, files>>

(* plt.show(): the figure is produced, under the session that is active     *)
(* (0: none), and a new figure begins.                                      *)
Show ==
    /\ Runs({"show"})
    /\ plots' = Append(plots, [line |-> Current.line, artists |-> figure,
                               session |-> Len(tasks)])
    /\ figure' = << >>
    /\ Done(Current)
    /\ UNCHANGED <<osenv, installed, tasks, files>>

(* plt.savefig("plot.png"): the figure is produced and written to a file. *)
Savefig ==
    /\ Runs({"savefig"})
    /\ plots' = Append(plots, [line |-> Current.line, artists |-> figure,
                               session |-> Len(tasks)])
    /\ files' = files \cup {Current.args.a0.v}
    /\ Done(Current)
    /\ UNCHANGED <<osenv, installed, tasks, figure>>

(* trainer.train() *)
Train ==
    /\ Runs({"run"})
    /\ tasks' = IF ClearMLCallbackUsed(bound[Current.callee])
                THEN Append(tasks, TrainerTask(osenv, Current.line))
                ELSE tasks
    /\ Done(Current)
    /\ UNCHANGED <<osenv, installed, figure, plots, files>>

(* The exception the current statement raises: an unbound name, a missing   *)
(* package, or whatever the library raises.                                 *)
Raised(s) ==
    IF ~(Reads(s, bound) \subseteq DOMAIN bound) THEN "NameError"
    ELSE IF s.kind = "import" /\ ~(Needs(s) \subseteq installed) THEN "ModuleNotFoundError"
    ELSE "LibraryError"

(* The current statement raises.  Outside a try statement the exception     *)
(* leaves the cell: nothing is bound, the rest of the cell is not run, and  *)
(* run-all stops.  Inside one, the handler would swallow it and the cell    *)
(* would go on.                                                             *)
Raise ==
    /\ AtStmt
    /\ \/ Raised(Current) # "LibraryError"
       \/ Current.kind \in LibraryCalls
    /\ IF Current.line \in TryLines(nb)
       THEN /\ stmt' = stmt + 1
            /\ UNCHANGED <<status, error, executing, figure, plots>>
       ELSE /\ status' = "error"
            /\ error' = [line |-> Current.line, type |-> Raised(Current)]
            /\ executing' = executing \ {cell}
            /\ FlushFigures(Current.line)
            /\ UNCHANGED stmt
    /\ UNCHANGED <<nb, inherited, cell, bound, osenv, installed, trace, started, tasks,
                   files, actors>>

(* The last statement of the cell has returned. *)
EndCell ==
    /\ status = "busy"
    /\ stmt > Len(Notebook(nb)[cell].source)
    /\ status' = "idle"
    /\ executing' = executing \ {cell}
    /\ FlushFigures(Notebook(nb)[cell].source[Len(Notebook(nb)[cell].source)].line)
    /\ UNCHANGED <<nb, inherited, cell, stmt, bound, osenv, installed, trace, started,
                   tasks, files, error, actors>>

(* No code cell is left: run-all is over. *)
Halt ==
    /\ status = "idle"
    /\ NextCodeCell(nb, cell) = 0
    /\ status' = "done"
    /\ UNCHANGED <<nb, inherited, cell, stmt, bound, osenv, installed, trace, started,
                   tasks, figure, plots, files, error, executing, actors>>

Next ==
    \/ StartCell
    \/ SetEnv
    \/ Install
    \/ InstallFails
    \/ ImportModule
    \/ Define
    \/ Call
    \/ TaskInit
    \/ Plot
    \/ Show
    \/ Savefig
    \/ Train
    \/ Raise
    \/ EndCell
    \/ Halt

Spec == Init /\ [][Next]_vars

----------------------------------------------------------------------------
(* Reading the history of a run. *)

(* The position of a line in the trace, 0 when it has not been executed. *)
Pos(line) ==
    IF \E i \in 1..Len(trace) : trace[i] = line
    THEN CHOOSE i \in 1..Len(trace) : trace[i] = line
    ELSE 0

(* The positions of the trace that hold a statement of one of the kinds ks. *)
Executed(ks) == {i \in 1..Len(trace) : StmtAt(nb, trace[i]).kind \in ks}

ExecutedOp(op) == {i \in 1..Len(trace) : StmtAt(nb, trace[i]).op = op}

PlotKinds == {"plot", "show", "savefig"}

(* The figures produced so far, each known by the calls that drew it. *)
Figures == {plots[k].artists : k \in 1..Len(plots)}

LastLine == IF nb = "transformers" THEN T_Train.source[1].line ELSE M_Seaborn.source[4].line

TrainLine == T_Train.source[1].line

----------------------------------------------------------------------------
(* C1 as the claim states it: every install command runs before every       *)
(* environment-variable assignment, every assignment before the first       *)
(* construction of a library object, and that before every run/plot call.   *)
C1_SpecOrder ==
    /\ \A i \in Executed({"install"}), j \in Executed({"env"}) : i < j
    /\ \A i \in Executed({"env"}), j \in Executed({"construct"}) : i < j
    /\ \A j \in Executed(PlotKinds \cup {"run"}) : \E i \in Executed({"construct"}) : i < j

(* C1, amended: the environment-variable assignments run before the install *)
(* commands (transformers notebook; the matplotlib notebook assigns none),  *)
(* every install command runs before the first construction of a library    *)
(* object, and a construction runs before every run/plot call.              *)
C1_CodeOrder ==
    /\ \A i \in Executed({"env"}), j \in Executed({"install"}) : i < j
    /\ \A i \in Executed({"install"}), j \in Executed({"construct"}) : i < j
    /\ \A i \in Executed({"env"}), j \in Executed({"construct"}) : i < j
    /\ \A j \in Executed(PlotKinds \cup {"run"}) : \E i \in Executed({"construct"}) : i < j

C1_Witness ==
    /\ nb = "transformers"
    /\ status = "done"
    /\ Executed({"env"}) # {}
    /\ Executed({"install"}) # {}
    /\ Executed({"construct"}) # {}
    /\ Executed({"run"}) # {}

(* C2: in the matplotlib notebook Task.init runs once, before every         *)
(* plotting call; every plot is produced under that one session, whether    *)
(* plt.show(), plt.savefig() or the end of the cell produces it, and a      *)
(* complete run has produced six plots, one per plotting cell, and left no  *)
(* figure open.                                                             *)
C2_InitBeforePlots ==
    nb = "matplotlib" =>
        /\ Len(tasks) <= 1
        /\ Cardinality(ExecutedOp("Task.init")) = Len(tasks)
        /\ \A j \in Executed(PlotKinds) :
              /\ Len(tasks) = 1
              /\ \E i \in ExecutedOp("Task.init") : i < j
        /\ \A k \in 1..Len(plots) : plots[k].session = 1
        /\ figure # << >> => Len(tasks) = 1
        /\ status = "done" =>
              /\ Cardinality(Figures) = 6
              /\ << >> \notin Figures
              /\ figure = << >>
              /\ Len(tasks) = 1

C2_Witness ==
    /\ nb = "matplotlib"
    /\ status = "done"
    /\ Cardinality(Figures) = 6
    /\ \E k \in 1..Len(plots) : plots[k].line = 186 /\ plots[k].artists = <<184, 185>>
    /\ \A k \in 1..Len(plots) : plots[k].session = 1

(* C3: when trainer.train() is about to be called, the pip install clearml  *)
(* line has run and clearml is installed, CLEARML_LOG_MODEL is True and the *)
(* trainer's arguments report to clearml; once it has been called, it has   *)
(* created a ClearML task that logs the models.                             *)
C3_CaptureReady ==
    nb = "transformers" =>
        /\ (AtStmt /\ Current.kind = "run") =>
              /\ Pos(81) # 0
              /\ "clearml" \in installed
              /\ Getenv(osenv, "CLEARML_LOG_MODEL", "unset") = "True"
              /\ "trainer" \in DOMAIN bound
              /\ "clearml" \in ReportTo(bound["trainer"].kw.args)
        /\ Pos(TrainLine) # 0 =>
              \E k \in 1..Len(tasks) : tasks[k].line = TrainLine /\ tasks[k].log_model

C3_Witness ==
    /\ nb = "transformers"
    /\ Pos(TrainLine) # 0
    /\ Len(tasks) = 1
    /\ tasks[1].log_model
    /\ "clearml" \in installed
    /\ status = "done"

(* C4: the notebook as shipped assigns neither CLEARML_TASK nor             *)
(* CLEARML_PROJECT, so at trainer.train() each still has the value the      *)
(* kernel inherited, if any; the task trainer.train() creates takes each of *)
(* its two names from that value when there is one and the default          *)
(* ("Trainer", "HuggingFace Transformers") when there is none, each         *)
(* independently of the other.                                              *)
C4_TaskNaming ==
    nb = "transformers" =>
        /\ \A i \in Executed({"env"}) :
              StmtAt(nb, trace[i]).var \notin {"CLEARML_TASK", "CLEARML_PROJECT"}
        /\ \A k \in 1..Len(tasks) :
              /\ "CLEARML_TASK" \in DOMAIN osenv => tasks[k].name = osenv["CLEARML_TASK"]
              /\ "CLEARML_TASK" \notin DOMAIN osenv => tasks[k].name = "Trainer"
              /\ "CLEARML_PROJECT" \in DOMAIN osenv =>
                    tasks[k].project = osenv["CLEARML_PROJECT"]
              /\ "CLEARML_PROJECT" \notin DOMAIN osenv =>
                    tasks[k].project = "HuggingFace Transformers"
              /\ "CLEARML_TASK" \in DOMAIN inherited =>
                    tasks[k].name = inherited["CLEARML_TASK"]
              /\ "CLEARML_TASK" \notin DOMAIN inherited => tasks[k].name = "Trainer"
              /\ "CLEARML_PROJECT" \in DOMAIN inherited =>
                    tasks[k].project = inherited["CLEARML_PROJECT"]
              /\ "CLEARML_PROJECT" \notin DOMAIN inherited =>
                    tasks[k].project = "HuggingFace Transformers"

C4_Witness ==
    /\ nb = "transformers"
    /\ Len(tasks) = 1
    /\ "CLEARML_TASK" \in DOMAIN osenv
    /\ "CLEARML_PROJECT" \notin DOMAIN osenv
    /\ tasks[1].name = "my task"
    /\ tasks[1].project = "HuggingFace Transformers"

(* The statements executed so far are an initial part of the notebook's     *)
(* statements, in document order.                                           *)
TraceIsPrefix ==
    /\ Len(trace) <= Len(Lines(nb))
    /\ \A i \in 1..Len(trace) : trace[i] = Lines(nb)[i]

(* The lines of the statement that raised and of those after it. *)
NotRun == {Lines(nb)[i] : i \in Len(trace) + 1..Len(Lines(nb))}

(* What C5 holds of every raise but the bindings: no statement is skipped   *)
(* over; when a statement raises, the run is in error with that             *)
(* statement's exception, exactly the statements before it have run, no     *)
(* cell is executing and nothing runs afterwards.                           *)
RunStopsAtRaise ==
    /\ TraceIsPrefix
    /\ status = "error" =>
          /\ error.type # "none"
          /\ Len(trace) < Len(Lines(nb))
          /\ error.line = Lines(nb)[Len(trace) + 1]
          /\ executing = {}
          /\ ~ENABLED Next

(* C5 as the claim states it: in addition, no name that the statement that  *)
(* raised or a later statement would have bound is bound.                   *)
C5_AsClaimed ==
    /\ RunStopsAtRaise
    /\ status = "error" =>
          \A l \in NotRun : StmtAt(nb, l).binds \cap DOMAIN bound = {}

(* C5, amended: in addition, no binding that the statement that raised or   *)
(* a later statement would have made is in place: every bound name holds    *)
(* the value an executed statement gave it, so a name those statements      *)
(* would bind is unbound or still bound as an earlier statement left it     *)
(* (dataset from line 191 when line 218 raises).                            *)
C5_RaisePropagates ==
    /\ RunStopsAtRaise
    /\ status = "error" =>
          /\ \A n \in DOMAIN bound : Pos(bound[n].line) # 0
          /\ \A l \in NotRun :
                \A n \in StmtAt(nb, l).binds :
                      n \in DOMAIN bound =>
                          /\ bound[n].line # l
                          /\ \E e \in 1..Len(trace) :
                                /\ n \in StmtAt(nb, trace[e]).binds
                                /\ bound[n].line = trace[e]

C5_Witness ==
    /\ status = "error"
    /\ error.type = "LibraryError"
    /\ nb = "transformers"
    /\ error.line = 218
    /\ bound["dataset"].line = 191

(* C6: at most one cell is executing, it is the current cell, cells start   *)
(* in increasing order, and only the kernel's thread ever runs the          *)
(* notebook's statements.                                                   *)
C6_Sequential ==
    /\ Cardinality(executing) <= 1
    /\ status = "busy" <=> executing = {cell}
    /\ status # "busy" => executing = {}
    /\ actors \subseteq {"kernel"}

C6_Witness ==
    /\ nb = "transformers"
    /\ Pos(218) # 0
    /\ actors = {"kernel"}
    /\ status = "busy"
    /\ executing = {cell}

(* C7: no statement finds a name it reads unbound: no run ends in a         *)
(* NameError, and the statement about to execute reads bound names only.    *)
C7_BoundBeforeRead ==
    /\ error.type # "NameError"
    /\ AtStmt => Reads(Current, bound) \subseteq DOMAIN bound

C7_Witness ==
    /\ nb = "transformers"
    /\ AtStmt
    /\ Current.op = "Trainer"
    /\ Reads(Current, bound) =
          {"Trainer", "model", "training_args", "dataset", "tokenizer", "data_collator"}
    /\ Pos(218) # 0

(* C8: the trainer, once constructed, holds the train and test splits of    *)
(* one dataset, the one dataset.map(tokenize_dataset) returned for the raw  *)
(* load_dataset result, tokenized with the very tokenizer the trainer and   *)
(* its data collator hold; dataset was bound twice before.                  *)
C8_TrainerOnTokenized ==
    (nb = "transformers" /\ "trainer" \in DOMAIN bound) =>
        LET t == bound["trainer"].kw
        IN  /\ t.train_dataset.key = "train"
            /\ t.eval_dataset.key = "test"
            /\ t.train_dataset.of = t.eval_dataset.of
            /\ t.train_dataset.of.type = "map"
            /\ t.train_dataset.of.of.type = "load_dataset"
            /\ t.train_dataset.of.mapped_with = t.tokenizer
            /\ t.data_collator.kw.tokenizer = t.tokenizer
            /\ t.train_dataset.of = bound["dataset"]
            /\ {i \in 1..Len(trace) : "dataset" \in StmtAt(nb, trace[i]).binds}
                  = {Pos(191), Pos(218)}
            /\ 0 < Pos(191) /\ Pos(191) < Pos(218) /\ Pos(218) < Pos(267)

C8_Witness ==
    /\ nb = "transformers"
    /\ "trainer" \in DOMAIN bound
    /\ bound["trainer"].kw.train_dataset.of.line = 218
    /\ bound["trainer"].kw.train_dataset.of.of.line = 191

(* The code cells of the notebook in the order run-all takes them. *)
RECURSIVE CodeCellsFrom(_, _)
CodeCellsFrom(n, c) ==
    IF NextCodeCell(n, c) = 0 THEN << >>
    ELSE << NextCodeCell(n, c) >> \o CodeCellsFrom(n, NextCodeCell(n, c))

TransformersRunOrder == CodeCellsFrom("transformers", 0)

MatplotlibRunOrder == CodeCellsFrom("matplotlib", 0)

RunOrder == IF nb = "transformers" THEN TransformersRunOrder ELSE MatplotlibRunOrder

(* C9: the cells started so far are an initial part of the code cells in    *)
(* document order (none skipped, none twice); a run in which every call     *)
(* returns ends with every code cell started once, every statement          *)
(* executed once in document order, trainer.train() (line 295) resp. the    *)
(* seaborn cell's plt.show() (line 216) last, and nothing left to run.      *)
C9_LinearRun ==
    /\ Len(started) <= Len(RunOrder)
    /\ \A i \in 1..Len(started) : started[i] = RunOrder[i]
    /\ status = "done" =>
          /\ started = RunOrder
          /\ {started[i] : i \in 1..Len(started)} = CodeCells(nb)
          /\ trace = Lines(nb)
          /\ trace[Len(trace)] = LastLine
          /\ LastLine \in {295, 216}
          /\ ~ENABLED Next

C9_Witness ==
    /\ status = "done"
    /\ nb = "matplotlib"
    /\ Len(started) = 9
    /\ trace[Len(trace)] = 216

====
